---- MODULE Spec2Model ----
(***************************************************************************)
(* Model of hepstats/hypotests/parameters.py: the classes POIarray and POI *)
(* (a parameter of interest with several values / with one value) and the  *)
(* function asarray.                                                       *)
(*                                                                         *)
(* Python values are records tagged by their type:                         *)
(*   int            [t |-> "int",   n |-> k]                               *)
(*   float/float64  [t |-> "float", s, e, m]  the IEEE-754 binary64 fields *)
(*                  sign, biased exponent and the top 20 bits of the 52-bit*)
(*                  fraction (the low 32 fraction bits are 0 for every     *)
(*                  number of the model)                                   *)
(*   list           [t |-> "list",    items |-> <<scalars>>]               *)
(*   numpy array    [t |-> "ndarray", items |-> <<floats>>]                *)
(* and objects of the two classes are records with the attributes the      *)
(* constructors set.                                                       *)
(***************************************************************************)
EXTENDS Integers, Sequences, FiniteSets, TLC

VARIABLES regs, gens, last

vars == <<regs, gens, last>>

(***************************************************************************)
(* Bounds of the model.                                                    *)
(***************************************************************************)
\* Longest value sequence an object of the model holds.
MaxLen == 2

(***************************************************************************)
(* Parameters: the external fit-parameter objects.  A parameter has a name *)
(* and is accepted or not by the external predicate is_valid_parameter.    *)
(***************************************************************************)
Nsig == [name |-> "Nsig", valid |-> TRUE]

Nbkg == [name |-> "Nbkg", valid |-> TRUE]

NotAParameter == [name |-> "obj", valid |-> FALSE]

Params == {Nsig, Nbkg, NotAParameter}

is_valid_parameter(parameter) == parameter.valid

(***************************************************************************)
(* Numbers.                                                                *)
(***************************************************************************)
PyInt(k) == [t |-> "int", n |-> k]

PyFloat(s, e, m) == [t |-> "float", s |-> s, e |-> e, m |-> m]

PosZero == PyFloat(0, 0, 0)

NegZero == PyFloat(1, 0, 0)

\* A quiet NaN, 0x7FF8000000000000, as float("nan") and numpy.nan are.
NaN == PyFloat(0, 2047, 524288)

IsNaN(x) == x.t = "float" /\ x.e = 2047 /\ x.m # 0

IsZero(x) == x.t = "float" /\ x.e = 0 /\ x.m = 0

RECURSIVE Pow2(_)
Pow2(k) == IF k = 0 THEN 1 ELSE 2 * Pow2(k - 1)

RECURSIVE Log2(_)
\* floor(log2(k)) for k >= 1
Log2(k) == IF k < 2 THEN 0 ELSE 1 + Log2(k \div 2)

\* The binary64 nearest to the int k (exact for |k| < 2^21, the ints of the
\* model): k = (-1)^s * 2^(e-1023) * (1 + m / 2^20).
FromInt(k) ==
    IF k = 0 THEN PosZero
    ELSE LET abs == IF k < 0 THEN 0 - k ELSE k
             lg  == Log2(abs)
         IN  PyFloat(IF k < 0 THEN 1 ELSE 0, 1023 + lg,
                     (abs - Pow2(lg)) * Pow2(20 - lg))

\* What numpy.array(..., dtype=numpy.float64) makes of one element.
ToFloat64(x) == IF x.t = "int" THEN FromInt(x.n) ELSE x

\* IEEE-754 equality of two binary64: NaN equals nothing, -0.0 equals 0.0.
FloatEq(x, y) ==
    IF IsNaN(x) \/ IsNaN(y) THEN FALSE
    ELSE IF IsZero(x) /\ IsZero(y) THEN TRUE
    ELSE x = y

\* x == y for two Python/numpy numbers of the model.
NumEq(x, y) ==
    IF x.t = "int" /\ y.t = "int" THEN x.n = y.n
    ELSE FloatEq(ToFloat64(x), ToFloat64(y))

\* The 8 bytes of a binary64 in memory (little endian).
Float64Bytes(x) ==
    << 0, 0, 0, 0,
       x.m % 256,
       (x.m \div 256) % 256,
       (x.e % 16) * 16 + (x.m \div 65536),
       x.s * 128 + (x.e \div 16) >>

IntInputs == {0, 1}

FloatInputs == {NegZero, NaN}

\* The numbers calling code passes in.
Scalars == {PyInt(k) : k \in IntInputs} \cup FloatInputs

RECURSIVE SeqsUpTo(_, _)
SeqsUpTo(S, k) ==
    IF k = 0 THEN {<<>>}
    ELSE LET shorter == SeqsUpTo(S, k - 1)
         IN  shorter \cup {Append(s, x) : s \in {q \in shorter : Len(q) = k - 1}, x \in S}

PyList(items) == [t |-> "list", items |-> items]

NdArray(items) == [t |-> "ndarray", items |-> items]

Lists == {PyList(s) : s \in SeqsUpTo(Scalars, MaxLen)}

\* isinstance(x, collections.abc.Iterable)
IsIterable(x) == x.t \in {"list", "ndarray"}

\* numpy.array(values, dtype=numpy.float64)
np_array(values) ==
    NdArray([i \in 1..Len(values.items) |-> ToFloat64(values.items[i])])

\* numpy.concatenate([first, second]) of an ndarray and an array-like
np_concatenate(first, second) ==
    NdArray(first.items \o np_array(second).items)

\* ndarray.tostring(): the elements' bytes, one after the other
RECURSIVE BytesOf(_)
BytesOf(items) ==
    IF items = <<>> THEN <<>>
    ELSE Float64Bytes(Head(items)) \o BytesOf(Tail(items))

tostring(arr) == BytesOf(arr.items)

(***************************************************************************)
(* Objects and the outcome of a call.  A call either returns a value or    *)
(* raises: [err |-> "none", obj |-> value] or [err |-> exception type,     *)
(* obj |-> None].                                                          *)
(***************************************************************************)
None == [cls |-> "NoneType"]

Return(value) == [err |-> "none", obj |-> value]

Raise(exception) == [err |-> exception, obj |-> None]

\* isinstance(x, POIarray): POI is a subclass of POIarray
IsPOIarray(x) == x.cls \in {"POIarray", "POI"}

\* isinstance(x, POI)
IsPOI(x) == x.cls = "POI"

(***************************************************************************)
(* class POIarray                                                          *)
(***************************************************************************)
\* POIarray.__init__ with its two tests in the other order.
POIarray_init_type_first(parameter, values) ==
    IF ~IsIterable(values) THEN Raise("TypeError")
    ELSE IF ~is_valid_parameter(parameter) THEN Raise("ValueError")
    ELSE Return([cls       |-> "POIarray",
                 parameter |-> parameter,
                 name      |-> parameter.name,
                 values    |-> np_array(values),
                 ndim      |-> 1,
                 shape     |-> <<Len(values.items)>>])

POIarray_init(parameter, values) ==
    IF ~is_valid_parameter(parameter) THEN Raise("ValueError")
    ELSE IF ~IsIterable(values) THEN Raise("TypeError")
    ELSE Return([cls       |-> "POIarray",
                 parameter |-> parameter,
                 name      |-> parameter.name,
                 values    |-> np_array(values),
                 ndim      |-> 1,
                 shape     |-> <<Len(values.items)>>])

POIarray_len(self) == Len(self.values.items)

\* self.values[i] for an int i: numpy counts a negative index from the end
\* and raises IndexError outside -len .. len-1.
ndarray_getitem(arr, i) ==
    LET n == Len(arr.items)
    IN  IF i >= 0 /\ i < n THEN Return(arr.items[i + 1])
        ELSE IF i < 0 /\ i >= 0 - n THEN Return(arr.items[n + i + 1])
        ELSE Raise("IndexError")

(***************************************************************************)
(* class POI(POIarray)                                                     *)
(***************************************************************************)
\* POI.__init__ without the test that value is no iterable.
POI_init_unchecked(parameter, value) ==
    LET base == POIarray_init(parameter, PyList(<<value>>))
    IN  IF base.err # "none" THEN base
        ELSE Return([cls       |-> "POI",
                     parameter |-> base.obj.parameter,
                     name      |-> base.obj.name,
                     values    |-> base.obj.values,
                     ndim      |-> base.obj.ndim,
                     shape     |-> base.obj.shape,
                     value     |-> value])

POI_init(parameter, value) ==
    IF IsIterable(value) THEN Raise("TypeError")
    ELSE LET base == POIarray_init(parameter, PyList(<<value>>))
         IN  IF base.err # "none" THEN base
             ELSE Return([cls       |-> "POI",
                          parameter |-> base.obj.parameter,
                          name      |-> base.obj.name,
                          values    |-> base.obj.values,
                          ndim      |-> base.obj.ndim,
                          shape     |-> base.obj.shape,
                          value     |-> value])

\* POIarray.__getitem__ counting the elements from 1.
POIarray_getitem_from_one(self, i) ==
    LET v == ndarray_getitem(self.values, i - 1)
    IN  IF v.err # "none" THEN v ELSE POI_init(self.parameter, v.obj)

POIarray_getitem(self, i) ==
    LET v == ndarray_getitem(self.values, i)
    IN  IF v.err # "none" THEN v ELSE POI_init(self.parameter, v.obj)

\* The generator POIarray.__iter__ returns, before its first next(): pos is
\* the number of elements of self.values consumed, yielded what it has
\* yielded so far.
POIarray_iter(self) ==
    [self |-> self, pos |-> 0, yielded |-> <<>>, state |-> "running"]

\* next(gen) of a generator that goes through self.values from the end.
generator_next_reversed(gen) ==
    IF gen.state = "running" /\ gen.pos < Len(gen.self.values.items)
    THEN LET r == POI_init(gen.self.parameter,
                           gen.self.values.items[Len(gen.self.values.items) - gen.pos])
         IN  [res |-> r,
              gen |-> [gen EXCEPT !.pos = gen.pos + 1,
                                  !.yielded = IF r.err = "none"
                                              THEN Append(gen.yielded, r.obj)
                                              ELSE gen.yielded]]
    ELSE [res |-> Raise("StopIteration"),
          gen |-> [gen EXCEPT !.state = "finished"]]

\* next(gen): the outcome and the generator afterwards
generator_next(gen) ==
    IF gen.state = "running" /\ gen.pos < Len(gen.self.values.items)
    THEN LET r == POI_init(gen.self.parameter, gen.self.values.items[gen.pos + 1])
         IN  [res |-> r,
              gen |-> [gen EXCEPT !.pos = gen.pos + 1,
                                  !.yielded = IF r.err = "none"
                                              THEN Append(gen.yielded, r.obj)
                                              ELSE gen.yielded]]
    ELSE [res |-> Raise("StopIteration"),
          gen |-> [gen EXCEPT !.state = "finished"]]

(***************************************************************************)
(* Equality.  An __eq__ method answers "True", "False" or "NotImplemented".*)
(***************************************************************************)
PyBool(b) == IF b THEN "True" ELSE "False"

\* POIarray.__eq__ comparing the values and not the names.
POIarray_eq_values_only(self, other) ==
    IF ~IsPOIarray(other) THEN "NotImplemented"
    ELSE IF POIarray_len(self) # POIarray_len(other) THEN "False"
    ELSE PyBool(\A i \in 1..POIarray_len(self) :
                    FloatEq(self.values.items[i], other.values.items[i]))

POIarray_eq(self, other) ==
    IF ~IsPOIarray(other) THEN "NotImplemented"
    ELSE IF POIarray_len(self) # POIarray_len(other) THEN "False"
    ELSE LET values_equal ==
                 \A i \in 1..POIarray_len(self) :
                     FloatEq(self.values.items[i], other.values.items[i])
             name_equal == self.name = other.name
         IN  PyBool(values_equal /\ name_equal)

POI_eq(self, other) ==
    IF ~IsPOI(other) THEN "NotImplemented"
    ELSE LET value_equal == NumEq(self.value, other.value)
             name_equal == self.name = other.name
         IN  PyBool(value_equal /\ name_equal)

\* type(x).__eq__(x, y)
eq_method(x, y) ==
    IF x.cls = "POI" THEN POI_eq(x, y)
    ELSE IF x.cls = "POIarray" THEN POIarray_eq(x, y)
    ELSE "NotImplemented"

\* x == y as Python evaluates it: the right operand's __eq__ goes first when
\* its class is a proper subclass of the left operand's class, and an
\* answer of NotImplemented passes the question to the other operand.  When
\* both decline Python compares identities; two objects of these classes
\* never both decline.
PyEq(x, y) ==
    LET right_first == y.cls = "POI" /\ x.cls = "POIarray"
        first  == IF right_first THEN eq_method(y, x) ELSE eq_method(x, y)
        second == IF right_first THEN eq_method(x, y) ELSE eq_method(y, x)
    IN  IF first # "NotImplemented" THEN first = "True"
        ELSE IF second # "NotImplemented" THEN second = "True"
        ELSE FALSE

(***************************************************************************)
(* Hashing.  hash() of a tuple is modelled by the tuple itself, with each  *)
(* element replaced by what decides its hash: bytes by their content, a    *)
(* number by its numeric value (hash(1) = hash(1.0), hash(0.0) =           *)
(* hash(-0.0)).  Two hashes are equal in the model iff Python hashes equal *)
(* keys; accidental collisions of the hash function are left out.  A key   *)
(* says which kind of element it stands for and holds it in the field of   *)
(* that kind.  (The hash of a NaN depends on the Python version; no claim   *)
(* reads it, as an object holding NaN equals nothing.)                     *)
(***************************************************************************)
hash_bytes(b) == [kind |-> "bytes", bytes |-> b, number |-> PosZero]

hash_number(x) ==
    LET f == ToFloat64(x)
    IN  [kind |-> "number", bytes |-> <<>>,
         number |-> IF IsZero(f) THEN PosZero ELSE f]

POIarray_hash(self) == <<self.name, hash_bytes(tostring(self.values))>>

POI_hash(self) == <<self.name, hash_number(self.value)>>

\* hash(x): type(x).__hash__(x)
PyHash(x) == IF x.cls = "POI" THEN POI_hash(x) ELSE POIarray_hash(x)

(***************************************************************************)
(* append and asarray                                                      *)
(***************************************************************************)
\* append extending the receiver's own values as well.
POIarray_append_in_place(self, values) ==
    LET listed == IF ~IsIterable(values) THEN PyList(<<values>>) ELSE values
        joined == np_concatenate(self.values, listed)
    IN  [self |-> [self EXCEPT !.values = joined],
         res  |-> POIarray_init(self.parameter, joined)]

\* append returning a copy of the receiver with the values replaced and the
\* shape left as it was.
POIarray_append_stale_shape(self, values) ==
    LET listed == IF ~IsIterable(values) THEN PyList(<<values>>) ELSE values
        joined == np_concatenate(self.values, listed)
    IN  [self |-> self,
         res  |-> Return([cls       |-> "POIarray",
                          parameter |-> self.parameter,
                          name      |-> self.name,
                          values    |-> joined,
                          ndim      |-> self.ndim,
                          shape     |-> self.shape])]

\* The outcome of self.append(values) and the receiver after the call.
POIarray_append(self, values) ==
    LET listed == IF ~IsIterable(values) THEN PyList(<<values>>) ELSE values
        joined == np_concatenate(self.values, listed)
    IN  [self |-> self,
         res  |-> POIarray_init(self.parameter, joined)]

asarray(poi) == POIarray_init(poi.parameter, poi.values)

(***************************************************************************)
(* The state: a session of calling code.                                   *)
(*   regs  the objects the names a and b are bound to (None: unbound)      *)
(*   gens  the generators obtained from iter(), by number (NoGen: none)    *)
(*   last  the last call: its name, its arguments, the receiver before and *)
(*         after it, and its outcome                                       *)
(***************************************************************************)
Regs == {"a", "b"}

GenIds == {1, 2}

NoGen == [state |-> "none"]

NoCall == [op |-> "none"]

ValidParams == {p \in Params : is_valid_parameter(p)}

Indices == (0 - MaxLen - 1)..MaxLen

Call(op, recv, after, param, arg, res) ==
    [op |-> op, recv |-> recv, after |-> after, param |-> param, arg |-> arg,
     ret |-> res.obj, err |-> res.err]

\* dst = <call>: the name is bound when the call returns, kept when it raises
\* (and a call whose result is bound to no name, dst = "_", changes none)
Bind(dst, res) ==
    IF res.err = "none" /\ dst \in Regs THEN [regs EXCEPT ![dst] = res.obj] ELSE regs

\* The number of values x adds when appended.
AddedLen(x) == IF IsIterable(x) THEN Len(x.items) ELSE 1

Init ==
    /\ regs = [r \in Regs |-> None]
    /\ gens = [g \in GenIds |-> NoGen]
    /\ last = NoCall

\* dst = POIarray(parameter, values)
NewPOIarray(dst, parameter, values) ==
    LET res == POIarray_init(parameter, values)
    IN  /\ regs' = Bind(dst, res)
        /\ last' = Call("POIarray", None, None, parameter, values, res)
        /\ UNCHANGED gens

\* dst = POI(parameter, value)
NewPOI(dst, parameter, value) ==
    LET res == POI_init(parameter, value)
    IN  /\ regs' = Bind(dst, res)
        /\ last' = Call("POI", None, None, parameter, value, res)
        /\ UNCHANGED gens

\* dst = src.append(values)
DoAppend(src, dst, values) ==
    /\ regs[src] # None
    /\ POIarray_len(regs[src]) + AddedLen(values) <= MaxLen
    /\ LET out == POIarray_append(regs[src], values)
       IN  /\ regs' = Bind(dst, out.res)
           /\ last' = Call("append", regs[src], out.self, regs[src].parameter,
                           values, out.res)
    /\ UNCHANGED gens

\* dst = src[i]
GetItem(src, dst, i) ==
    /\ regs[src] # None
    /\ LET res == POIarray_getitem(regs[src], i)
       IN  /\ regs' = Bind(dst, res)
           /\ last' = Call("getitem", regs[src], regs[src], regs[src].parameter,
                           PyInt(i), res)
    /\ UNCHANGED gens

\* dst = asarray(src)
AsArray(src, dst) ==
    /\ regs[src] # None
    /\ LET res == asarray(regs[src])
       IN  /\ regs' = Bind(dst, res)
           /\ last' = Call("asarray", regs[src], regs[src], regs[src].parameter,
                           regs[src], res)
    /\ UNCHANGED gens

\* left == right, evaluated and its truth value kept
Compare(left, right) ==
    /\ regs[left] # None /\ regs[right] # None
    /\ last' = Call("eq", regs[left], regs[left], regs[left].parameter,
                    regs[right], Return(PyBool(PyEq(regs[left], regs[right]))))
    /\ UNCHANGED <<regs, gens>>

\* gens[g] = iter(src)
IterStart(g, src) ==
    /\ regs[src] # None
    /\ gens' = [gens EXCEPT ![g] = POIarray_iter(regs[src])]
    /\ last' = Call("iter", regs[src], regs[src], regs[src].parameter,
                    PyInt(g), Return(None))
    /\ UNCHANGED regs

\* dst = next(gens[g])
IterNext(g, dst) ==
    /\ gens[g] # NoGen
    /\ LET out == generator_next(gens[g])
       IN  /\ gens' = [gens EXCEPT ![g] = out.gen]
           /\ regs' = Bind(dst, out.res)
           /\ last' = Call("next", gens[g].self, out.gen.self,
                           gens[g].self.parameter, PyInt(g), out.res)

(***************************************************************************)
(* Spec: the two constructors called with every parameter and every second *)
(* argument, the result not bound to a name (it is last.ret).              *)
(***************************************************************************)
Next ==
    \/ \E p \in Params, v \in Lists \cup Scalars : NewPOIarray("_", p, v)
    \/ \E p \in Params, v \in Scalars \cup Lists : NewPOI("_", p, v)

Spec == Init /\ [][Next]_vars

\* Every object the constructors make from valid arguments.
Constructed ==
    {POIarray_init(p, v).obj : p \in ValidParams, v \in Lists}
        \cup {POI_init(p, v).obj : p \in ValidParams, v \in Scalars}

(***************************************************************************)
(* SpecPair: a and b are bound to two constructed objects, b then to what  *)
(* a's methods and asarray return, and the two are compared with ==.       *)
(***************************************************************************)
InitPair ==
    /\ regs \in [Regs -> Constructed]
    /\ gens = [g \in GenIds |-> NoGen]
    /\ last = NoCall

NextPair ==
    \/ \E x \in Scalars \cup Lists : DoAppend("a", "b", x)
    \/ \E i \in Indices : GetItem("a", "b", i)
    \/ AsArray("a", "b")
    \/ \E s \in Regs, t \in Regs : Compare(s, t)

SpecPair == InitPair /\ [][NextPair]_vars

(***************************************************************************)
(* SpecIter: two generators over the object bound to a, advanced in any    *)
(* order; what next() returns is bound to b.                               *)
(***************************************************************************)
InitIter ==
    /\ regs \in {[r \in Regs |-> IF r = "a" THEN o ELSE None] : o \in Constructed}
    /\ gens = [g \in GenIds |-> NoGen]
    /\ last = NoCall

NextIter ==
    \/ \E g \in GenIds : IterStart(g, "a")
    \/ \E g \in GenIds : IterNext(g, "b")

SpecIter == InitIter /\ [][NextIter]_vars

(***************************************************************************)
(* SpecAll: one name and one generator; every operation that makes an      *)
(* object, applied to whatever an earlier one made.                        *)
(***************************************************************************)
SomeScalars == {PyInt(1), NaN}

SomeLists == {PyList(s) : s \in SeqsUpTo(SomeScalars, MaxLen)}

NextAll ==
    \/ \E v \in SomeLists : NewPOIarray("a", Nsig, v)
    \/ \E v \in SomeScalars : NewPOI("a", Nsig, v)
    \/ \E x \in SomeScalars \cup SomeLists : DoAppend("a", "a", x)
    \/ \E i \in Indices : GetItem("a", "a", i)
    \/ AsArray("a", "a")
    \/ IterStart(1, "a")
    \/ IterNext(1, "a")

SpecAll == Init /\ [][NextAll]_vars

(***************************************************************************)
(* Properties.                                                             *)
(***************************************************************************)
\* A POIarray that is not a POI.
IsPlain(o) == o.cls = "POIarray"

HasNaN(o) == \E i \in 1..Len(o.values.items) : IsNaN(o.values.items[i])

Reversed(q) == [i \in 1..Len(q) |-> q[Len(q) + 1 - i]]

EqCall == last.op = "eq"

\* C1: a POI and a plain POIarray never compare equal, whichever operand
\* comes first.
C1_POINeverEqualsPlainArray ==
    (EqCall /\ (\/ IsPOI(last.recv) /\ IsPlain(last.arg)
                \/ IsPlain(last.recv) /\ IsPOI(last.arg)))
        => last.ret = "False"

\* C2: two plain POIarrays that compare equal have the same hash.
C2_EqualArraysHashEqual ==
    (EqCall /\ IsPlain(last.recv) /\ IsPlain(last.arg) /\ last.ret = "True")
        => POIarray_hash(last.recv) = POIarray_hash(last.arg)

\* The equality rule of the data model: same name, same length, and equal
\* values at every index.
SameNameAndValues(x, y) ==
    /\ x.name = y.name
    /\ Len(x.values.items) = Len(y.values.items)
    /\ \A i \in 1..Len(x.values.items) :
           i <= Len(y.values.items) /\ FloatEq(x.values.items[i], y.values.items[i])

\* C3 as stated: == of two plain POIarrays is the equality rule, symmetric,
\* and reflexive.
C3_EqualityReflexive ==
    (EqCall /\ IsPlain(last.recv) /\ IsPlain(last.arg))
        => /\ last.ret = "True" <=> SameNameAndValues(last.recv, last.arg)
           /\ last.ret = "True" <=> PyEq(last.arg, last.recv)
           /\ last.recv = last.arg => last.ret = "True"

\* C3 (amended): == of two plain POIarrays is the equality rule and is
\* symmetric; an array compared with itself is equal exactly when it holds
\* no NaN.
C3_Equality ==
    (EqCall /\ IsPlain(last.recv) /\ IsPlain(last.arg))
        => /\ last.ret = "True" <=> SameNameAndValues(last.recv, last.arg)
           /\ last.ret = "True" <=> PyEq(last.arg, last.recv)
           /\ last.recv = last.arg => (last.ret = "True" <=> ~HasNaN(last.recv))

\* Two arrays of one parameter holding the same two different values in
\* opposite orders, compared and found not equal.
C3_Witness ==
    /\ EqCall /\ IsPlain(last.recv) /\ IsPlain(last.arg)
    /\ last.recv.name = last.arg.name
    /\ Len(last.recv.values.items) = 2
    /\ ~HasNaN(last.recv)
    /\ last.arg.values.items = Reversed(last.recv.values.items)
    /\ last.ret = "False"

IsConstructorCall == last.op \in {"POIarray", "POI"}

\* C4 as stated: with a parameter that is not valid both constructors raise
\* ValueError, whatever the second argument, and make no object.
C4_InvalidParameterAlwaysValueError ==
    (IsConstructorCall /\ ~is_valid_parameter(last.param))
        => (last.err = "ValueError" /\ last.ret = None)

\* C4 (amended): with a parameter that is not valid, POIarray raises
\* ValueError whatever the second argument, POI raises ValueError when its
\* second argument is a scalar and TypeError when it is an iterable; no
\* object is made.
C4_InvalidParameter ==
    (IsConstructorCall /\ ~is_valid_parameter(last.param))
        => /\ last.ret = None
           /\ regs = [r \in Regs |-> None]
           /\ last.op = "POIarray" => last.err = "ValueError"
           /\ (last.op = "POI" /\ ~IsIterable(last.arg)) => last.err = "ValueError"
           /\ (last.op = "POI" /\ IsIterable(last.arg)) => last.err = "TypeError"

C4_Witness ==
    /\ last.op = "POIarray"
    /\ ~is_valid_parameter(last.param)
    /\ ~IsIterable(last.arg)
    /\ last.err = "ValueError"

\* C5: with a valid parameter, POI of an iterable and POIarray of a scalar
\* raise TypeError and make no object.
C5_TypeConstraint ==
    (IsConstructorCall /\ is_valid_parameter(last.param)
        /\ (IsIterable(last.arg) <=> last.op = "POI"))
        => (last.err = "TypeError" /\ last.ret = None /\ regs = [r \in Regs |-> None])

C5_Witness ==
    /\ last.op = "POI"
    /\ is_valid_parameter(last.param)
    /\ last.arg.t = "list" /\ Len(last.arg.items) = 2
    /\ last.err = "TypeError"

\* The scalars x adds when appended, in order.
AddedItems(x) == IF IsIterable(x) THEN x.items ELSE <<x>>

\* POIarray(p, vs followed by x), for the receiver and argument of the last
\* call of append.
AppendExpected ==
    POIarray_init(last.recv.parameter,
                  PyList(last.recv.values.items \o AddedItems(last.arg))).obj

AppendCall == last.op = "append" /\ is_valid_parameter(last.recv.parameter)

\* C6 as stated: append returns a POIarray that compares equal to the one
\* built from the receiver's values followed by the appended ones, and the
\* receiver is as it was.
C6_AppendEqualsConcatenation ==
    AppendCall
        => /\ last.err = "none"
           /\ IsPlain(last.ret)
           /\ PyEq(last.ret, AppendExpected)
           /\ last.after = last.recv

\* C6 (amended): append returns a POIarray with the receiver's parameter and
\* name whose values are the receiver's followed by the appended ones, in
\* order and with none dropped; it compares equal (==) to the POIarray built
\* from that sequence unless a value is NaN; the receiver is as it was.
C6_Append ==
    AppendCall
        => /\ last.err = "none"
           /\ IsPlain(last.ret)
           /\ last.ret.parameter = last.recv.parameter
           /\ last.ret.name = last.recv.name
           /\ last.ret.values.items
                  = last.recv.values.items
                        \o [i \in 1..Len(AddedItems(last.arg))
                                |-> ToFloat64(AddedItems(last.arg)[i])]
           /\ last.ret.shape = <<Len(last.recv.values.items) + AddedLen(last.arg)>>
           /\ PyEq(last.ret, AppendExpected) <=> ~HasNaN(last.ret)
           /\ last.after = last.recv

\* A value the receiver already holds is appended and is then held twice.
C6_Witness ==
    /\ AppendCall /\ last.err = "none"
    /\ last.recv.values.items = <<FromInt(1)>>
    /\ last.arg = PyInt(1)
    /\ last.ret.values.items = <<FromInt(1), FromInt(1)>>
    /\ last.after.values.items = <<FromInt(1)>>
    /\ PyEq(last.ret, AppendExpected)

\* The lists POIarray(p, values) makes the receiver of the last call from.
SourcesOfReceiver ==
    {v \in Lists : POIarray_init(last.recv.parameter, v) = Return(last.recv)}

GetItemCall == last.op = "getitem" /\ IsPlain(last.recv)

\* C7 as stated: for 0 <= i < len(values), POIarray(p, values)[i] is a POI
\* that compares equal to POI(p, values[i]); for i >= len(values) the call
\* raises IndexError and returns nothing.
C7_GetItemEqualsPOI ==
    GetItemCall
        => /\ (last.arg.n >= 0 /\ last.arg.n < POIarray_len(last.recv))
               => /\ last.err = "none" /\ IsPOI(last.ret)
                  /\ \A v \in SourcesOfReceiver :
                         PyEq(last.ret,
                              POI_init(last.recv.parameter, v.items[last.arg.n + 1]).obj)
           /\ last.arg.n >= POIarray_len(last.recv)
               => last.err = "IndexError" /\ last.ret = None

\* C7 (amended): for 0 <= i < len(values), POIarray(p, values)[i] is a POI
\* of parameter p whose value is values[i] as a 64-bit float; it compares
\* equal to POI(p, values[i]) unless values[i] is NaN; for i >= len(values)
\* the call raises IndexError and returns nothing.
C7_GetItem ==
    GetItemCall
        => /\ (last.arg.n >= 0 /\ last.arg.n < POIarray_len(last.recv))
               => /\ last.err = "none" /\ IsPOI(last.ret)
                  /\ last.ret.parameter = last.recv.parameter
                  /\ \A v \in SourcesOfReceiver :
                         /\ last.ret.value = ToFloat64(v.items[last.arg.n + 1])
                         /\ PyEq(last.ret,
                                 POI_init(last.recv.parameter,
                                          v.items[last.arg.n + 1]).obj)
                                <=> ~IsNaN(v.items[last.arg.n + 1])
           /\ last.arg.n >= POIarray_len(last.recv)
               => last.err = "IndexError" /\ last.ret = None

\* The second of two different values is read.
C7_Witness ==
    /\ GetItemCall /\ last.err = "none"
    /\ POIarray_len(last.recv) = 2
    /\ last.arg.n = 1
    /\ ~FloatEq(last.recv.values.items[1], last.recv.values.items[2])
    /\ PyList(<<PyInt(0), PyInt(1)>>) \in SourcesOfReceiver
    /\ PyEq(last.ret, POI_init(last.recv.parameter, PyInt(1)).obj)

Started == {g \in GenIds : gens[g] # NoGen}

\* POI(arr.parameter, arr.values[k]) for the object a generator runs over
\* (k counted from 1).
ExpectedYield(g, k) ==
    POI_init(gens[g].self.parameter, gens[g].self.values.items[k]).obj

\* What holds of iteration whatever the values are: a generator has yielded
\* one POI per value consumed and no more than the object holds, it is
\* finished only after yielding them all, the object is as it was, and two
\* generators over it have yielded the same objects as far as both went.
IterationShape ==
    /\ \A g \in Started :
           /\ gens[g].self = regs["a"]
           /\ Len(gens[g].yielded) = gens[g].pos
           /\ gens[g].pos <= POIarray_len(regs["a"])
           /\ gens[g].state = "finished"
                  => Len(gens[g].yielded) = POIarray_len(regs["a"])
           /\ \A k \in 1..Len(gens[g].yielded) : IsPOI(gens[g].yielded[k])
    /\ \A g \in Started, h \in Started :
           \A k \in 1..Len(gens[g].yielded) :
               k <= Len(gens[h].yielded) => gens[g].yielded[k] = gens[h].yielded[k]
    /\ (last.op = "next" /\ last.err = "none")
           => (regs["b"] = last.ret /\ last.after = last.recv)

\* C8 as stated: iteration yields len(arr) POIs, the k-th comparing equal to
\* POI(arr.parameter, arr.values[k]); a second iteration yields the same from
\* the beginning; the object is unchanged; an empty one yields nothing.
C8_IterationYieldsEqualPOIs ==
    /\ IterationShape
    /\ \A g \in Started :
           \A k \in 1..Len(gens[g].yielded) :
               PyEq(gens[g].yielded[k], ExpectedYield(g, k))

\* C8 (amended): as stated, except that the k-th POI has parameter
\* arr.parameter and value arr.values[k], and compares equal (==) to
\* POI(arr.parameter, arr.values[k]) unless that value is NaN.
C8_Iteration ==
    /\ IterationShape
    /\ \A g \in Started :
           \A k \in 1..Len(gens[g].yielded) :
               /\ gens[g].yielded[k].parameter = regs["a"].parameter
               /\ gens[g].yielded[k].value = regs["a"].values.items[k]
               /\ PyEq(gens[g].yielded[k], ExpectedYield(g, k))
                      <=> ~IsNaN(regs["a"].values.items[k])

\* One generator has gone through two different values and is finished,
\* while a second one over the same object has yielded the first only.
C8_Witness ==
    /\ Started = GenIds
    /\ POIarray_len(regs["a"]) = 2
    /\ ~FloatEq(regs["a"].values.items[1], regs["a"].values.items[2])
    /\ gens[1].state = "finished" /\ Len(gens[1].yielded) = 2
    /\ gens[2].state = "running" /\ Len(gens[2].yielded) = 1
    /\ PyEq(gens[2].yielded[1], gens[1].yielded[1])
    /\ ~PyEq(gens[1].yielded[2], gens[1].yielded[1])

RECURSIVE SeqRange(_)
SeqRange(q) == IF q = <<>> THEN {} ELSE {Head(q)} \cup SeqRange(Tail(q))

\* Every POIarray or POI the session holds or has just been handed.
Objects ==
    {o \in {regs[r] : r \in Regs}
            \cup (IF last.op = "none" THEN {} ELSE {last.recv, last.after, last.ret})
            \cup {gens[g].self : g \in Started}
            \cup UNION {SeqRange(gens[g].yielded) : g \in Started} :
        IsPOIarray(o)}

\* C9 as stated: every object has shape == (len(values),) and ndim == 1, and
\* every POI has len == 1 and value == values[0].
C9_StructureValueEquals ==
    \A o \in Objects :
        /\ o.shape = <<Len(o.values.items)>>
        /\ o.ndim = 1
        /\ IsPOI(o) => (POIarray_len(o) = 1 /\ NumEq(o.value, o.values.items[1]))

\* C9 (amended): every object has shape == (len(values),) and ndim == 1, and
\* every POI has len == 1 and values[0] the 64-bit float of value, so that
\* value == values[0] unless value is NaN.
C9_Structure ==
    \A o \in Objects :
        /\ o.shape = <<Len(o.values.items)>>
        /\ o.ndim = 1
        /\ IsPOI(o) => /\ POIarray_len(o) = 1
                       /\ o.values.items[1] = ToFloat64(o.value)
                       /\ NumEq(o.value, o.values.items[1]) <=> ~IsNaN(o.value)

\* A POI yielded by iterating over an array that append made is turned into
\* an array by asarray.
C9_Witness ==
    /\ last.op = "asarray" /\ last.err = "none"
    /\ IsPOI(last.recv) /\ IsPlain(last.ret)
    /\ 1 \in Started
    /\ gens[1].pos = MaxLen
    /\ last.recv = gens[1].yielded[MaxLen]
    /\ regs["a"] = last.ret

\* C10: two objects, each a POI or a plain POIarray, that compare equal have
\* the same hash.
C10_EqualImpliesSameHash ==
    (EqCall /\ last.ret = "True") => PyHash(last.recv) = PyHash(last.arg)

====
